---- MODULE Spec2Model ----
(***************************************************************************)
(* Model of ExampleExplorationServer (src/src/explore_server.cpp): the     *)
(* action callback executeCB, which drives one exploration mission, and    *)
(* the containment test pointInPolygon.                                    *)
(*                                                                         *)
(* executeCB is one sequential control flow.  Its position is pc; every    *)
(* action below is one stretch of the code between two places where the    *)
(* code reads the shutdown flag (ros::ok()) or the preemption flag         *)
(* (as_.isPreemptRequested()), which the environment sets asynchronously.  *)
(* The collaborators (boundary service, move_base, frontier service,       *)
(* costmap pose, tf) answer nondeterministically.                          *)
(***************************************************************************)
EXTENDS Integers, Sequences, FiniteSets, TLC

\* ------------------------------------------------------------------ bounds
\* Explore-loop iterations a run of the model may start.
MaxIter == 2

\* Vertices of the polygons given to a direct call of pointInPolygon.
MaxVertices == 4

\* --------------------------------------------------------- program constants
\* A plausible slip: a budget of 4.
MaxRetryFour == 5 - 1

\* retry = 5 (lines 59, 87, 134, 171)
MaxRetry == 5

\* ------------------------------------------------------------------ geometry
\* A point is <<x, y>>; a polygon is a sequence of points.
Square == << <<0, 0>>, <<2, 0>>, <<2, 2>>, <<0, 2>> >>
Segment == << <<0, 0>>, <<2, 2>> >>

\* goal->explore_boundary.polygon: the boundaries a mission may be given.
Boundaries == {Square, Segment}

\* goal->explore_boundary.header.frame_id
BoundaryFrame == "map"

\* Frames in which the costmap may report the robot pose.
Frames == {"map", "odom"}

\* Positions the costmap may report for the robot.
Positions == {<<1, 1>>, <<3, 1>>}

\* A plausible slip at line 202: j starts at 0 instead of at the last index.
PrevIndexNoWrap(i, n) == IF i = 1 THEN 1 ELSE i - 1

\* j = polygon.points.size()-1 at i = 0, then j = i++ : the index before i.
PrevIndex(i, n) == IF i = 1 THEN n ELSE i - 1

\* A plausible slip at line 203: >= in the first comparison.
StraddlesOrTouches(pi, pj, point) == (pi[2] >= point[2]) # (pj[2] > point[2])

\* (polygon.points[i].y > point.y) != (polygon.points[j].y > point.y)
Straddles(pi, pj, point) == (pi[2] > point[2]) # (pj[2] > point[2])

\* A plausible slip at line 204: point.y - yj in place of point.y - yi.
LeftOfEdgeFromJ(pi, pj, point) ==
    LET d == pj[2] - pi[2]
        n == (pj[1] - pi[1]) * (point[2] - pj[2])
    IN  IF d > 0 THEN (point[1] - pi[1]) * d < n
                 ELSE (point[1] - pi[1]) * d > n

\* point.x < (xj - xi) * (point.y - yi) / (yj - yi) + xi, evaluated only when
\* the edge straddles (so yj # yi).  The quotient is a real number; the
\* comparison is made exactly by multiplying through by (yj - yi), whose sign
\* decides the direction of the inequality.
LeftOfEdge(pi, pj, point) ==
    LET d == pj[2] - pi[2]
        n == (pj[1] - pi[1]) * (point[2] - pi[2])
    IN  IF d > 0 THEN (point[1] - pi[1]) * d < n
                 ELSE (point[1] - pi[1]) * d > n

\* The number of edges counted as crossings by the loop of pointInPolygon.
Crossings(point, polygon) ==
    Cardinality({i \in 1..Len(polygon) :
        /\ Straddles(polygon[i], polygon[PrevIndex(i, Len(polygon))], point)
        /\ LeftOfEdge(polygon[i], polygon[PrevIndex(i, Len(polygon))], point)})

\* return bool(cross % 2)
pointInPolygon(point, polygon) == Crossings(point, polygon) % 2 = 1

\* tf_listener_.transformPose(boundary frame, start_pose, eval_pose): the
\* "odom" frame is displaced from the boundary frame by a fixed translation.
OdomToMap(point) == <<point[1] - 2, point[2]>>

\* eval_pose: start_pose itself when its frame is the boundary's, else its
\* transform into the boundary's frame.
EvalPose(point, frame) == IF frame # BoundaryFrame THEN OdomToMap(point) ELSE point

\* ------------------------------------------------------------------ targets
\* A navigation target: the center pose, the frontier returned by the
\* frontier service in iteration n, or a default-constructed pose.
center_pose == <<"center", 0>>
UnsetPose == <<"unset", 0>>
Frontier(n) == <<"frontier", n>>

VARIABLES
    pc,            \* position of executeCB
    retry,         \* int retry
    success,       \* bool success
    goal_pose,     \* geometry_msgs::PoseStamped goal_pose
    start_pose,    \* srv.request.start_pose position
    start_frame,   \* srv.request.start_pose.header.frame_id
    poseOk,        \* what getRobotPose returned in this iteration
    boundary,      \* goal->explore_boundary.polygon
    rosOk,         \* ros::ok()
    preempt,       \* as_.isPreemptRequested()
    outcome,       \* terminal state reported on as_ ("none" before)
    reports,       \* number of setAborted/setSucceeded calls made
    event,         \* collaborator interaction of the last step
    target,        \* target_pose of the last navigation goal sent
    iter,          \* explore-loop iterations started
    attempts,      \* calls made in the current retry-guarded step
    navCalls,      \* sendGoalAndWait calls made
    frontierCalls, \* getNextFrontier.call calls made
    found,         \* frontiers returned by the frontier service
    boundaryOk,    \* the boundary service call has returned true
    centerOk,      \* the move to the center has reached SUCCEEDED
    frontierReached, \* a navigation to a frontier has reached SUCCEEDED
    preemptAtTop,  \* preemption was requested when an iteration started
    preemptAtBoundary, \* the set-boundary loop condition has read the request
    cancelInSleep, \* step in whose retry delay a cancellation was raised
    waitFailed,    \* the availability wait that has failed ("none" before)
    counting,      \* whether this run keeps the counts iter, navCalls, ...
    contained      \* what a direct call of pointInPolygon returned

vars == <<pc, retry, success, goal_pose, start_pose, start_frame, poseOk,
          boundary, rosOk, preempt, outcome, reports, event, target, iter,
          attempts, navCalls, frontierCalls, found, boundaryOk, centerOk,
          frontierReached, preemptAtTop, preemptAtBoundary, cancelInSleep,
          waitFailed, counting, contained>>

\* Variables of the pose source, the goal and the per-mission histories.
poseVars == <<start_pose, start_frame, poseOk>>
\* What executeCB never changes: its goal, and what belongs to the observer.
fixedVars == <<boundary, counting, contained>>
envVars == <<rosOk, preempt>>
doneVars == <<boundaryOk, centerOk, frontierReached>>
seenVars == <<preemptAtTop, preemptAtBoundary, cancelInSleep>>
histVars == <<doneVars, seenVars>>
countVars == <<navCalls, frontierCalls, found, iter>>

\* A count kept only in the runs that count (see ExploreLoop).
Count(n) == IF counting THEN n + 1 ELSE n

\* The state of executeCB's locals, of the action server and of the histories
\* when executeCB is entered.
Entered ==
    /\ retry = 0              \* int retry; is unassigned until line 59 and not read before
    /\ success = FALSE
    /\ goal_pose = UnsetPose
    /\ start_frame = ""
    /\ poseOk = FALSE
    /\ rosOk = TRUE
    /\ preempt = FALSE
    /\ outcome = "none"
    /\ reports = 0
    /\ event = "none"
    /\ target = UnsetPose
    /\ iter = 0
    /\ attempts = 0
    /\ navCalls = 0
    /\ frontierCalls = 0
    /\ found = 0
    /\ boundaryOk = FALSE
    /\ centerOk = FALSE
    /\ frontierReached = FALSE
    /\ preemptAtTop = FALSE
    /\ preemptAtBoundary = FALSE
    /\ cancelInSleep = "none"
    /\ waitFailed = "none"

Init ==
    /\ pc = "waitBoundary"
    /\ counting = TRUE
    /\ contained = FALSE
    /\ start_pose = <<0, 0>>
    /\ boundary \in Boundaries
    /\ Entered

\* as_.setAborted(); return;   /   as_.setSucceeded(); return;
Report(result) ==
    /\ outcome' = result
    /\ reports' = reports + 1
    /\ pc' = "done"

NoReport == UNCHANGED <<outcome, reports>>

\* Line 193, the end of the explore loop's body: srv, robot_pose and goal_pose
\* are locals of the body, constructed anew (zero-initialised) by the next
\* iteration.
EndOfBody ==
    /\ goal_pose' = UnsetPose
    /\ start_pose' = <<0, 0>>
    /\ start_frame' = ""
    /\ poseOk' = FALSE

\* ----------------------------------------------------------- set boundary
\* Lines 52-59: wait for the boundary service; retry = 5.  waitForExistence
\* gives up, returning false, once ros::ok() is false.
WaitBoundary ==
    /\ pc = "waitBoundary"
    /\ event' = "waitBoundary"
    /\ \E available \in (IF rosOk THEN BOOLEAN ELSE {FALSE}) :
          IF available
          THEN /\ retry' = MaxRetry
               /\ attempts' = 0
               /\ pc' = "boundaryLoop"
               /\ NoReport
               /\ UNCHANGED waitFailed
          ELSE /\ Report("Aborted")
               /\ waitFailed' = "boundary"
               /\ UNCHANGED <<retry, attempts>>
    /\ UNCHANGED <<success, goal_pose, poseVars, fixedVars, envVars, target,
                   countVars, histVars>>

\* Line 60: while(ros::ok() && !as_.isPreemptRequested()); when the condition
\* is false control continues after the loop, at line 78.
BoundaryLoop ==
    /\ pc = "boundaryLoop"
    /\ event' = "none"
    /\ pc' = IF rosOk /\ ~preempt THEN "boundaryCall" ELSE "waitMoveBase"
    /\ preemptAtBoundary' = (preemptAtBoundary \/ (rosOk /\ preempt))
    /\ UNCHANGED <<waitFailed, retry, success, goal_pose, poseVars, fixedVars,
                   envVars, outcome, reports, target, attempts, countVars,
                   doneVars, preemptAtTop, cancelInSleep>>

\* Lines 61-73: one call of the boundary service and the handling of its result.
BoundaryCall ==
    /\ pc = "boundaryCall"
    /\ event' = "boundary"
    /\ attempts' = attempts + 1
    /\ \E ok \in BOOLEAN :
          IF ok
          THEN /\ boundaryOk' = TRUE
               /\ pc' = "waitMoveBase"
               /\ NoReport
               /\ UNCHANGED retry
          ELSE /\ retry' = retry - 1
               /\ IF retry' = 0 \/ ~rosOk
                  THEN Report("Aborted")
                  ELSE pc' = "boundarySleep" /\ NoReport
               /\ UNCHANGED boundaryOk
    /\ UNCHANGED <<waitFailed, success, goal_pose, poseVars, fixedVars, envVars, target,
                   countVars, centerOk, frontierReached, seenVars>>

\* Line 74: ros::Duration(0.5).sleep(), then back to the loop condition.
BoundarySleep ==
    /\ pc = "boundarySleep"
    /\ event' = "sleep"
    /\ pc' = "boundaryLoop"
    /\ UNCHANGED <<waitFailed, retry, success, goal_pose, poseVars, fixedVars, envVars,
                   outcome, reports, target, attempts, countVars, histVars>>

\* A plausible slip at line 83: the return is missing, so the move to the
\* center follows as_.setAborted().
WaitMoveBaseNoReturn ==
    /\ pc = "waitMoveBase"
    /\ event' = "waitMoveBase"
    /\ \E available \in BOOLEAN :
          IF available
          THEN /\ retry' = MaxRetry
               /\ attempts' = 0
               /\ pc' = "centerLoop"
               /\ NoReport
               /\ UNCHANGED waitFailed
          ELSE /\ outcome' = "Aborted"
               /\ reports' = reports + 1
               /\ waitFailed' = "move_base"
               /\ retry' = MaxRetry
               /\ attempts' = 0
               /\ pc' = "centerLoop"
    /\ UNCHANGED <<success, goal_pose, poseVars, fixedVars, envVars, target,
                   countVars, histVars>>

\* ---------------------------------------------------------- move to center
\* Lines 78-91: connect to move_base; retry = 5; build center_pose.
\* waitForServer returns whether the server is connected, also after shutdown.
WaitMoveBase ==
    /\ pc = "waitMoveBase"
    /\ event' = "waitMoveBase"
    /\ \E available \in BOOLEAN :
          IF available
          THEN /\ retry' = MaxRetry
               /\ attempts' = 0
               /\ pc' = "centerLoop"
               /\ NoReport
               /\ UNCHANGED waitFailed
          ELSE /\ Report("Aborted")
               /\ waitFailed' = "move_base"
               /\ UNCHANGED <<retry, attempts>>
    /\ UNCHANGED <<success, goal_pose, poseVars, fixedVars, envVars, target,
                   countVars, histVars>>

\* Line 92: while(ros::ok()); when false control continues at line 113.
CenterLoop ==
    /\ pc = "centerLoop"
    /\ event' = "none"
    /\ pc' = IF rosOk THEN "centerNav" ELSE "waitFrontier"
    /\ UNCHANGED <<waitFailed, retry, success, goal_pose, poseVars, fixedVars, envVars,
                   outcome, reports, target, attempts, countVars, histVars>>

\* Lines 93-108: one navigation goal to center_pose and the handling of its
\* terminal state.
CenterNav ==
    /\ pc = "centerNav"
    /\ event' = "nav"
    /\ target' = center_pose
    /\ navCalls' = Count(navCalls)
    /\ attempts' = attempts + 1
    /\ \E succeeded \in BOOLEAN :
          IF succeeded
          THEN /\ centerOk' = TRUE
               /\ pc' = "waitFrontier"
               /\ NoReport
               /\ UNCHANGED retry
          ELSE /\ retry' = retry - 1
               /\ IF retry' = 0 \/ ~rosOk
                  THEN Report("Aborted")
                  ELSE pc' = "centerSleep" /\ NoReport
               /\ UNCHANGED centerOk
    /\ UNCHANGED <<waitFailed, success, goal_pose, poseVars, fixedVars, envVars,
                   frontierCalls, found, iter, boundaryOk, frontierReached,
                   seenVars>>

\* Line 109: ros::Duration(0.5).sleep(), then back to the loop condition.
CenterSleep ==
    /\ pc = "centerSleep"
    /\ event' = "sleep"
    /\ pc' = "centerLoop"
    /\ UNCHANGED <<waitFailed, retry, success, goal_pose, poseVars, fixedVars, envVars,
                   outcome, reports, target, attempts, countVars, histVars>>

\* A plausible slip at line 117: the return is missing, so the explore loop
\* follows as_.setAborted().
WaitFrontierNoReturn ==
    /\ pc = "waitFrontier"
    /\ event' = "waitFrontier"
    /\ \E available \in (IF rosOk THEN BOOLEAN ELSE {FALSE}) :
          IF available
          THEN /\ success' = FALSE
               /\ pc' = "exploreLoop"
               /\ NoReport
               /\ UNCHANGED waitFailed
          ELSE /\ outcome' = "Aborted"
               /\ reports' = reports + 1
               /\ waitFailed' = "frontier"
               /\ success' = FALSE
               /\ pc' = "exploreLoop"
    /\ UNCHANGED <<retry, goal_pose, poseVars, fixedVars, envVars, target,
                   attempts, countVars, histVars>>

\* Lines 113-120: wait for the frontier service (which gives up once ros::ok()
\* is false); bool success = false.
WaitFrontier ==
    /\ pc = "waitFrontier"
    /\ event' = "waitFrontier"
    /\ \E available \in (IF rosOk THEN BOOLEAN ELSE {FALSE}) :
          IF available
          THEN /\ success' = FALSE
               /\ pc' = "exploreLoop"
               /\ NoReport
               /\ UNCHANGED waitFailed
          ELSE /\ Report("Aborted")
               /\ waitFailed' = "frontier"
               /\ UNCHANGED success
    /\ UNCHANGED <<retry, goal_pose, poseVars, fixedVars, envVars, target,
                   attempts, countVars, histVars>>

\* ------------------------------------------------------------ explore loop
\* Line 122: while(ros::ok()); when false executeCB falls off its end (line
\* 195) without reporting.  A run that counts starts at most MaxIter
\* iterations; a run that does not count has finitely many states without.
ExploreLoop ==
    /\ pc = "exploreLoop"
    /\ (rosOk /\ counting) => iter < MaxIter
    /\ event' = "none"
    /\ pc' = IF rosOk THEN "getRobotPose" ELSE "done"
    /\ preemptAtTop' = (preemptAtTop \/ (rosOk /\ preempt))
    /\ UNCHANGED <<waitFailed, retry, success, goal_pose, poseVars, fixedVars, envVars,
                   outcome, reports, target, attempts, countVars, doneVars,
                   preemptAtBoundary, cancelInSleep>>

\* Lines 124-136: explore_costmap_ros.getRobotPose(robot_pose), whose result
\* is not tested; retry = 5; goal_pose is default-constructed.  On success
\* the pose is any position in any frame.  On failure the costmap leaves the
\* identity pose with an empty frame id, or a pose too old to be trusted.
GetRobotPose ==
    /\ pc = "getRobotPose"
    /\ event' = "pose"
    /\ iter' = Count(iter)
    /\ \E ok \in BOOLEAN :
          /\ poseOk' = ok
          /\ \/ /\ start_pose' \in Positions
                /\ start_frame' \in Frames
             \/ /\ ~ok
                /\ start_pose' = <<0, 0>>
                /\ start_frame' = ""
    /\ retry' = MaxRetry
    /\ attempts' = 0
    /\ goal_pose' = UnsetPose
    /\ pc' = "frontierLoop"
    /\ UNCHANGED <<waitFailed, success, fixedVars, envVars, outcome, reports, target,
                   navCalls, frontierCalls, found, histVars>>

\* Line 137: while(ros::ok()); when false control continues at line 171.
FrontierLoop ==
    /\ pc = "frontierLoop"
    /\ event' = "none"
    /\ pc' = IF rosOk THEN "checkBoundary" ELSE "navInit"
    /\ UNCHANGED <<waitFailed, retry, success, goal_pose, poseVars, fixedVars, envVars,
                   outcome, reports, target, attempts, countVars, histVars>>

\* A plausible slip at line 147: the break is missing, so the frontier call
\* follows the return-to-center branch.
CheckBoundaryNoBreak ==
    /\ pc = "checkBoundary"
    /\ event' = IF start_frame # BoundaryFrame THEN "transform" ELSE "none"
    /\ \E thrown \in BOOLEAN :
          /\ thrown => start_frame # BoundaryFrame
          /\ start_frame = "" => thrown
          /\ IF thrown
             THEN /\ pc' = "crashed"
                  /\ UNCHANGED goal_pose
             ELSE IF ~pointInPolygon(EvalPose(start_pose, start_frame), boundary)
             THEN /\ goal_pose' = center_pose
                  /\ pc' = "frontierCall"
             ELSE /\ pc' = "frontierCall"
                  /\ UNCHANGED goal_pose
    /\ UNCHANGED <<waitFailed, retry, success, poseVars, fixedVars, envVars, outcome,
                   reports, target, attempts, countVars, histVars>>

\* Lines 140-148: the boundary-check pose and the containment test.
\* transformPose is called when the frames differ; it throws when tf cannot
\* transform (always for an empty frame id), and nothing in executeCB catches.
CheckBoundary ==
    /\ pc = "checkBoundary"
    /\ event' = IF start_frame # BoundaryFrame THEN "transform" ELSE "none"
    /\ \E thrown \in BOOLEAN :
          /\ thrown => start_frame # BoundaryFrame
          /\ start_frame = "" => thrown
          /\ IF thrown
             THEN /\ pc' = "crashed"
                  /\ UNCHANGED goal_pose
             ELSE IF ~pointInPolygon(EvalPose(start_pose, start_frame), boundary)
             THEN /\ goal_pose' = center_pose
                  /\ pc' = "navInit"
             ELSE /\ pc' = "frontierCall"
                  /\ UNCHANGED goal_pose
    /\ UNCHANGED <<waitFailed, retry, success, poseVars, fixedVars, envVars, outcome,
                   reports, target, attempts, countVars, histVars>>

\* A plausible slip in lines 157-165: the test of success is left out.
FrontierFailureNoFlag(r, s, ok) ==
    IF r = 0 THEN "Succeeded" ELSE IF ~ok THEN "Aborted" ELSE "none"

\* Lines 157-165: what a failed frontier call reports, given the decremented
\* retry r, success s and ros::ok() ok; "none" when the loop goes on.
FrontierFailure(r, s, ok) ==
    IF r = 0 /\ s THEN "Succeeded"
    ELSE IF r = 0 \/ ~ok THEN "Aborted"
    ELSE "none"

\* Lines 150-166: one call of the frontier service and the handling of its
\* result.  The frontier returned in iteration n is Frontier(n).
FrontierCall ==
    /\ pc = "frontierCall"
    /\ event' = "frontier"
    /\ frontierCalls' = Count(frontierCalls)
    /\ attempts' = attempts + 1
    /\ \E ok \in BOOLEAN :
          IF ok
          THEN /\ found' = Count(found)
               /\ goal_pose' = Frontier(iter)
               /\ pc' = "navInit"
               /\ NoReport
               /\ UNCHANGED retry
          ELSE /\ retry' = retry - 1
               /\ IF FrontierFailure(retry', success, rosOk) = "none"
                  THEN pc' = "frontierLoop" /\ NoReport
                  ELSE Report(FrontierFailure(retry', success, rosOk))
               /\ UNCHANGED <<found, goal_pose>>
    /\ UNCHANGED <<waitFailed, success, poseVars, fixedVars, envVars, target, navCalls,
                   iter, histVars>>

\* A plausible slip at line 171: retry is not set back to 5 before the
\* navigation loop.
NavInitNoReset ==
    /\ pc = "navInit"
    /\ event' = "none"
    /\ UNCHANGED retry
    /\ attempts' = 0
    /\ pc' = "navLoop"
    /\ UNCHANGED <<waitFailed, success, goal_pose, poseVars, fixedVars, envVars, outcome,
                   reports, target, countVars, histVars>>

\* Line 171: retry = 5.
NavInit ==
    /\ pc = "navInit"
    /\ event' = "none"
    /\ retry' = MaxRetry
    /\ attempts' = 0
    /\ pc' = "navLoop"
    /\ UNCHANGED <<waitFailed, success, goal_pose, poseVars, fixedVars, envVars, outcome,
                   reports, target, countVars, histVars>>

\* Line 172: while(ros::ok()); when false control returns to line 122.
NavLoop ==
    /\ pc = "navLoop"
    /\ event' = "none"
    /\ IF rosOk
       THEN pc' = "navCall" /\ UNCHANGED <<goal_pose, poseVars>>
       ELSE pc' = "exploreLoop" /\ EndOfBody
    /\ UNCHANGED <<waitFailed, retry, success, fixedVars, envVars, outcome, reports,
                   target, attempts, countVars, histVars>>

\* A plausible slip at line 174: goal.target_pose = center_pose, as at line 95.
NavCallToCenter ==
    /\ pc = "navCall"
    /\ event' = "nav"
    /\ target' = center_pose
    /\ navCalls' = Count(navCalls)
    /\ attempts' = attempts + 1
    /\ \E succeeded \in BOOLEAN :
          IF succeeded
          THEN /\ success' = TRUE
               /\ frontierReached' = (frontierReached \/ goal_pose[1] = "frontier")
               /\ pc' = "exploreLoop"
               /\ EndOfBody
               /\ NoReport
               /\ UNCHANGED retry
          ELSE /\ retry' = retry - 1
               /\ IF retry' = 0 \/ ~rosOk
                  THEN Report("Aborted")
                  ELSE pc' = "navSleep" /\ NoReport
               /\ UNCHANGED <<success, frontierReached, goal_pose, poseVars>>
    /\ UNCHANGED <<waitFailed, fixedVars, envVars, frontierCalls,
                   found, iter, boundaryOk, centerOk, seenVars>>

\* Lines 173-189: one navigation goal to goal_pose and the handling of its
\* terminal state.
NavCall ==
    /\ pc = "navCall"
    /\ event' = "nav"
    /\ target' = goal_pose
    /\ navCalls' = Count(navCalls)
    /\ attempts' = attempts + 1
    /\ \E succeeded \in BOOLEAN :
          IF succeeded
          THEN /\ success' = TRUE
               /\ frontierReached' = (frontierReached \/ goal_pose[1] = "frontier")
               /\ pc' = "exploreLoop"
               /\ EndOfBody
               /\ NoReport
               /\ UNCHANGED retry
          ELSE /\ retry' = retry - 1
               /\ IF retry' = 0 \/ ~rosOk
                  THEN Report("Aborted")
                  ELSE pc' = "navSleep" /\ NoReport
               /\ UNCHANGED <<success, frontierReached, goal_pose, poseVars>>
    /\ UNCHANGED <<waitFailed, fixedVars, envVars, frontierCalls,
                   found, iter, boundaryOk, centerOk, seenVars>>

\* Line 190: ros::Duration(0.5).sleep(), then back to the loop condition.
NavSleep ==
    /\ pc = "navSleep"
    /\ event' = "sleep"
    /\ pc' = "navLoop"
    /\ UNCHANGED <<waitFailed, retry, success, goal_pose, poseVars, fixedVars, envVars,
                   outcome, reports, target, attempts, countVars, histVars>>

\* ------------------------------------------------------------- environment
\* executeCB has returned, or an exception has left it.
Finished == pc \in {"done", "crashed"}

\* The step whose retry delay executeCB is in, "none" elsewhere.
Sleeping ==
    CASE pc = "boundarySleep" -> "boundary"
      [] pc = "centerSleep" -> "center"
      [] pc = "navSleep" -> "nav"
      [] OTHER -> "none"

NoteCancel ==
    cancelInSleep' = IF cancelInSleep = "none" THEN Sleeping ELSE cancelInSleep

\* The action client cancels the goal or sends a new one: from now on
\* as_.isPreemptRequested() is true.
Preempt ==
    /\ ~Finished
    /\ ~preempt
    /\ preempt' = TRUE
    /\ NoteCancel
    /\ UNCHANGED <<waitFailed, pc, retry, success, goal_pose, poseVars, fixedVars, rosOk,
                   outcome, reports, event, target, attempts, countVars,
                   doneVars, preemptAtTop, preemptAtBoundary>>

\* The node is shut down: from now on ros::ok() is false.
Shutdown ==
    /\ ~Finished
    /\ rosOk
    /\ rosOk' = FALSE
    /\ NoteCancel
    /\ UNCHANGED <<waitFailed, pc, retry, success, goal_pose, poseVars, fixedVars, preempt,
                   outcome, reports, event, target, attempts, countVars,
                   doneVars, preemptAtTop, preemptAtBoundary>>

\* ------------------------------------------------------------ specification
executeCB ==
    \/ WaitBoundary \/ BoundaryLoop \/ BoundaryCall \/ BoundarySleep
    \/ WaitMoveBase \/ CenterLoop \/ CenterNav \/ CenterSleep
    \/ WaitFrontier
    \/ ExploreLoop \/ GetRobotPose \/ FrontierLoop \/ CheckBoundary
    \/ FrontierCall \/ NavInit \/ NavLoop \/ NavCall \/ NavSleep

Next == executeCB \/ Preempt \/ Shutdown

Spec == Init /\ [][Next]_vars

\* ------------------------------------------------------------------ claims
\* No cancellation has been raised so far (both flags only ever get set).
NoCancel == rosOk /\ ~preempt

\* The boundary-check pose of the current iteration, and whether the
\* containment test puts it outside the goal polygon.  start_frame is set
\* only while an iteration's pose exists.
HasPose == start_frame \in Frames
Outside == ~pointInPolygon(EvalPose(start_pose, start_frame), boundary)

\* C1: when the frontier call has failed 5 times in one iteration (the last
\* step was a frontier call and it left retry at 0), the mission has ended in
\* that step, with one report: Succeeded if success is set, Aborted if not,
\* and always Aborted in the first iteration; no step of executeCB follows.
C1_FrontierExhaustion ==
    (event = "frontier" /\ retry = 0) =>
        /\ pc = "done"
        /\ reports = 1
        /\ outcome = (IF success THEN "Succeeded" ELSE "Aborted")
        /\ iter = 1 => outcome = "Aborted"
        /\ ~ENABLED executeCB

C1_Witness ==
    /\ event = "frontier" /\ retry = 0 /\ attempts = 5
    /\ outcome = "Succeeded" /\ iter = 2

\* C2: the mission has reported Succeeded only if a navigation to a frontier
\* returned by the frontier service has reached SUCCEEDED before.
C2_SucceededOnlyAfterFrontier == outcome = "Succeeded" => frontierReached

\* C3: retry stays within 0..5 and is 5 when a step is entered; every failed
\* attempt of the step costs one; and, with no cancellation, a step gives up
\* only after exactly 5 attempts and a step that succeeded at attempt k made
\* exactly k attempts (k - 1 failures, then the success that ended it).
StepPcs ==
    {"boundaryLoop", "boundaryCall", "boundarySleep",
     "centerLoop", "centerNav", "centerSleep",
     "frontierLoop", "checkBoundary", "frontierCall",
     "navLoop", "navCall", "navSleep"}

\* retry has been assigned (line 59 has been reached).
RetryAssigned == pc # "waitBoundary" /\ waitFailed # "boundary"

GaveUp == pc = "done" /\ event \in {"boundary", "nav", "frontier"}

StepSucceeded ==
    \/ pc = "waitMoveBase" /\ event = "boundary"
    \/ pc = "waitFrontier" /\ event = "nav"
    \/ pc = "navInit" /\ event = "frontier"
    \/ pc = "exploreLoop" /\ event = "nav"

C3_RetryBound ==
    /\ RetryAssigned => retry \in 0..5
    /\ (pc \in StepPcs /\ attempts = 0) => retry = 5
    /\ pc \in StepPcs => attempts + retry = 5
    /\ (NoCancel /\ GaveUp) => (attempts = 5 /\ retry = 0)
    /\ (NoCancel /\ StepSucceeded) => (attempts \in 1..5 /\ attempts = 5 - retry + 1)

C3_Witness ==
    /\ NoCancel /\ GaveUp /\ event = "nav" /\ attempts = 5
    /\ iter = 2 /\ frontierCalls >= 4 /\ navCalls >= 11

\* C4: once an explore-loop iteration has started with preemption requested,
\* no navigation goal is sent and no frontier call is made, and when executeCB
\* returns it has reported Aborted.  (A request that the set-boundary loop
\* has read already is the case of C5 and is left to it.)
C4_PreemptionStopsExploring ==
    (preemptAtTop /\ ~preemptAtBoundary) =>
        /\ event \notin {"nav", "frontier"}
        /\ pc = "done" => outcome = "Aborted"

\* C5: once the set-boundary loop condition has read a preemption request, no
\* boundary, navigation or frontier call is made, and when executeCB returns it
\* has reported Aborted.
C5_PreemptionAtSetBoundary ==
    preemptAtBoundary =>
        /\ event \notin {"boundary", "nav", "frontier"}
        /\ pc = "done" => outcome = "Aborted"

\* C6: once a cancellation has been raised during the delay after a failed
\* attempt, executeCB is still in that delay or at the loop condition that
\* follows it, or it has returned having reported Aborted: it makes no further
\* attempt and does not go on to the next step.
C6_CancelledInDelay ==
    cancelInSleep # "none" =>
        \/ /\ cancelInSleep = "boundary"
           /\ pc \in {"boundarySleep", "boundaryLoop"}
        \/ /\ cancelInSleep = "center"
           /\ pc \in {"centerSleep", "centerLoop"}
        \/ /\ cancelInSleep = "nav"
           /\ pc \in {"navSleep", "navLoop"}
        \/ pc = "done" /\ outcome = "Aborted"

\* C7: in an iteration whose boundary-check pose is outside the polygon, no
\* frontier call is made or about to be made, goal_pose is never a frontier,
\* and every navigation goal sent is the center pose.
C7_OutOfBoundaryRecovery ==
    (HasPose /\ Outside) =>
        /\ event # "frontier"
        /\ pc # "frontierCall"
        /\ goal_pose \in {UnsetPose, center_pose}
        /\ event = "nav" => target = center_pose

C7_Witness ==
    /\ HasPose /\ Outside /\ event = "nav" /\ target = center_pose
    /\ iter = 2 /\ found = 1 /\ success /\ retry < 5

\* C8: when an availability wait has failed, executeCB has returned with the
\* single report Aborted, the failed wait was its last interaction (no retry of
\* the wait, no call after it), and nothing of executeCB can follow; when the
\* boundary service was the one, no navigation goal has been sent.
C8_FatalUnavailability ==
    waitFailed # "none" =>
        /\ pc = "done" /\ outcome = "Aborted" /\ reports = 1
        /\ event = (CASE waitFailed = "boundary" -> "waitBoundary"
                      [] waitFailed = "move_base" -> "waitMoveBase"
                      [] OTHER -> "waitFrontier")
        /\ ~ENABLED executeCB
        /\ waitFailed = "boundary" => (navCalls = 0 /\ frontierCalls = 0)

C8_Witness == waitFailed = "frontier" /\ navCalls = 3 /\ boundaryOk /\ centerOk

\* C9: a navigation goal has been sent only after a boundary service call
\* returned success, and a frontier call has been made only after the move to
\* the center reached SUCCEEDED.
C9_StepOrdering ==
    /\ navCalls > 0 => boundaryOk
    /\ frontierCalls > 0 => centerOk

\* C10: at most one outcome is reported, and from the report on executeCB has
\* returned: no step of it, hence no collaborator call, can follow.
C10_OneOutcome ==
    /\ reports <= 1
    /\ reports = 1 <=> outcome # "none"
    /\ outcome # "none" => (pc = "done" /\ ~ENABLED executeCB)

C10_Witness == outcome = "Succeeded" /\ reports = 1 /\ navCalls >= 2

\* C11: whenever executeCB has returned, it has reported Succeeded or Aborted.
C11_ReturnsWithOutcome == pc = "done" => outcome \in {"Succeeded", "Aborted"}

\* ------------------------------------------------- the success scenario
\* The answers of the collaborators in the success scenario, as a constraint
\* on a step of executeCB (event' tells which interaction the step made):
\* every availability wait succeeds and tf never throws; the boundary call
\* succeeds within its budget; every navigation reaches SUCCEEDED; the robot
\* is always reported inside the boundary; the frontier service returns a
\* frontier on its first call, fails every call once it has failed one, and
\* fails at the latest when the iterations left are needed for the failures.
Nominal ==
    /\ waitFailed' = "none"
    /\ pc' # "crashed"
    /\ event' = "boundary" => pc' \in {"waitMoveBase", "boundarySleep"}
    /\ event' = "nav" => pc' \in {"waitFrontier", "exploreLoop"}
    /\ event' = "pose" => (HasPose' /\ ~Outside')
    /\ event' = "frontier" =>
          /\ frontierCalls = 0 => found' = found + 1
          /\ frontierCalls > found => found' = found
          /\ found >= MaxIter - 1 => found' = found

InitSuccess == Init /\ boundary = Square

NextSuccess == executeCB /\ Nominal

\* executeCB is a running thread whose calls all return in this scenario, so
\* it always takes its next step.
SpecSuccess == InitSuccess /\ [][NextSuccess]_vars /\ WF_vars(NextSuccess)

InitLoop ==
    /\ pc = "waitBoundary"
    /\ counting = FALSE
    /\ contained = FALSE
    /\ start_pose = <<0, 0>>
    /\ boundary \in Boundaries
    /\ Entered

\* No reachable frontier remains: the frontier service fails every call.  The
\* costmap always reports a pose in a frame that tf can transform, tf never
\* throws, and nobody cancels.
Exhausted ==
    /\ event' = "pose" => HasPose'
    /\ pc' # "crashed"
    /\ event' = "frontier" => pc' # "navInit"

NextLoop == executeCB /\ Exhausted

\* Every call and wait of executeCB returns, so it always takes its next step.
SpecLoop == InitLoop /\ [][NextLoop]_vars /\ WF_vars(NextLoop)

\* C13: in the exhausted-frontier scenario, whatever the pose source and the
\* navigation service do, executeCB eventually reports an outcome.
C13_Termination == <>(outcome # "none")

\* --------------------------------------------------------- pose failures
\* executeCB is in the body of an explore-loop iteration, after its pose query.
InIteration ==
    pc \in {"frontierLoop", "checkBoundary", "frontierCall", "navInit",
            "navLoop", "navCall", "navSleep"}

\* C14: no exception leaves executeCB, and in an iteration whose getRobotPose
\* failed no frontier call is made and no navigation goal is sent.
C14_PoseFailureHandled ==
    /\ pc # "crashed"
    /\ (InIteration /\ ~poseOk) => event \notin {"frontier", "nav"}

\* ------------------------------------------------- pointInPolygon alone
\* Vertices and points of the direct calls: six vertices on three levels
\* (among them a diamond, rectangles, triangles and a five-sided house), and
\* every point of the grid that reaches one beyond them on every side.
GridVertices == {<<0, 0>>, <<2, 0>>, <<4, 0>>, <<0, 2>>, <<4, 2>>, <<2, 4>>}
GridPoints == (-1..5) \X (-1..5)

\* Every polygon of at most MaxVertices vertices, in every order and with
\* repeated vertices.
Polygons == UNION {[1..n -> GridVertices] : n \in 0..MaxVertices}

\* pointInPolygon is about to be called with the point start_pose and the
\* polygon boundary.
InitPoly ==
    /\ pc = "pointInPolygon"
    /\ counting = TRUE
    /\ contained = FALSE
    /\ start_pose \in GridPoints
    /\ boundary \in Polygons
    /\ Entered

\* Lines 200-209: the call returns bool(cross % 2).
PolyCall ==
    /\ pc = "pointInPolygon"
    /\ contained' = pointInPolygon(start_pose, boundary)
    /\ pc' = "returned"
    /\ UNCHANGED <<retry, success, goal_pose, poseVars, boundary, counting,
                   envVars, outcome, reports, event, target, attempts,
                   countVars, histVars, waitFailed>>

SpecPoly == InitPoly /\ [][PolyCall]_vars

\* Twice the signed area of the triangle a, b, c: positive when c is to the
\* left of the line from a to b, zero when on it.
Cross(a, b, c) ==
    (b[1] - a[1]) * (c[2] - a[2]) - (b[2] - a[2]) * (c[1] - a[1])

\* The vertex after vertex i, around the polygon.
After(polygon, i) == polygon[(i % Len(polygon)) + 1]

\* The polygon is convex and turns to the side s (1: counter-clockwise, -1:
\* clockwise): its vertices are distinct, none is on the wrong side of an
\* edge, and they are not all on one line.
Convex(polygon, s) ==
    /\ Len(polygon) >= 3
    /\ \A i, k \in 1..Len(polygon) :
          /\ i # k => polygon[i] # polygon[k]
          /\ s * Cross(polygon[i], After(polygon, i), polygon[k]) >= 0
    /\ \E i, k \in 1..Len(polygon) :
          Cross(polygon[i], After(polygon, i), polygon[k]) # 0

\* The point is on the inner side of every edge / on the outer side of one.
StrictlyInside(point, polygon, s) ==
    \A i \in 1..Len(polygon) :
        s * Cross(polygon[i], After(polygon, i), point) > 0

StrictlyOutside(point, polygon, s) ==
    \E i \in 1..Len(polygon) :
        s * Cross(polygon[i], After(polygon, i), point) < 0

\* C15: for a convex polygon, given in either direction and from any first
\* vertex, pointInPolygon returns true for a point strictly inside and false
\* for a point strictly outside.
C15_Containment ==
    pc = "returned" =>
        \A s \in {1, -1} :
            Convex(boundary, s) =>
                /\ StrictlyInside(start_pose, boundary, s) => contained
                /\ StrictlyOutside(start_pose, boundary, s) => ~contained

\* A clockwise diamond listed from its top, and its center, level with two
\* of its vertices.
C15_Witness ==
    /\ pc = "returned"
    /\ boundary = << <<2, 4>>, <<4, 2>>, <<2, 0>>, <<0, 2>> >>
    /\ start_pose = <<2, 2>>
    /\ Convex(boundary, -1)
    /\ StrictlyInside(start_pose, boundary, -1)
    /\ contained

\* ------------------------------------- missions and direct calls together
InitAll == Init \/ InitPoly

\* A step of a mission or of its environment, or the direct call.
NextAll == (pc \notin {"pointInPolygon", "returned"} /\ Next) \/ PolyCall

SpecAll == InitAll /\ [][NextAll]_vars

C17_FrontierRetryDelay ==
    [][(event = "frontier" /\ pc = "frontierLoop" /\ pc' # pc)
          => event' = "sleep"]_vars

Denominators(point, polygon) ==
    {polygon[PrevIndex(i, Len(polygon))][2] - polygon[i][2] :
        i \in {k \in 1..Len(polygon) :
                 Straddles(polygon[k], polygon[PrevIndex(k, Len(polygon))], point)}}

\* C19: no call of pointInPolygon divides by zero: every quotient it evaluates
\* belongs to an edge whose endpoints differ in y.
C19_NoDivisionByZero ==
    pc = "returned" => 0 \notin Denominators(start_pose, boundary)

\* A call that has evaluated a quotient and has skipped a horizontal edge
\* level with the point and a repeated vertex.
C19_Witness ==
    /\ pc = "returned"
    /\ boundary = << <<0, 2>>, <<4, 2>>, <<2, 4>>, <<2, 4>> >>
    /\ start_pose = <<2, 2>>
    /\ Denominators(start_pose, boundary) # {}

====
